---- MODULE Spec2Model ----
(***************************************************************************)
(* Task and progression manager of src/components/TaskManager.tsx (the     *)
(* storage-backed TaskManager, lines 366-808), its focus timer             *)
(* (PomodoroTimer, lines 809-1008), the task form of                       *)
(* src/components/TaskList.tsx, the statistics of                          *)
(* src/components/UserStats.tsx and the sign-in page of src/pages/Auth.tsx.*)
(*                                                                         *)
(* Spec is the task manager, SpecStorage the task manager with edits       *)
(* through the task form, SpecOverlap three completion toggles on three    *)
(* open tasks, SpecMirror edits whose responses arrive in any order,       *)
(* SpecForm the task form in front of createTask and updateTask,           *)
(* SpecTimer the focus timer on its own, SpecTimerFair the same with       *)
(* ticks and effects that do not stay pending, SpecFocus the timer         *)
(* driving onFocusComplete, SpecAuth the sign-in page.                     *)
(*                                                                         *)
(* Every handler of the component is a closure of the render in which it   *)
(* was created: the `profile` and `tasks` it reads are the values of that  *)
(* render.  A handler that awaits the storage collaborator, and the        *)
(* callbacks it defers with setTimeout, therefore keep reading the values  *)
(* that were current when the handler was invoked.  Each invocation is a   *)
(* job that carries this snapshot (P, T) through its steps.                *)
(*                                                                         *)
(* The user is signed in and the profile is loaded throughout, so the      *)
(* `if (!user || !profile) return` guards never fire.  Pending setTimeout  *)
(* callbacks fire in the order of their deadlines: a 100 ms callback       *)
(* before every callback set after it, a 200 ms callback before every      *)
(* 200 ms callback set after it.  The latency of every awaited storage     *)
(* call and of the awaited updateProfile of toggleTaskComplete is free.    *)
(***************************************************************************)
EXTENDS Integers, Sequences, FiniteSets, TLC

\* ---------------------------------------------------------------- bounds
MaxOps == 2      \* user-level operations (create, toggle, delete, focus) per run
MaxDay == 2      \* last calendar day the run can reach
MaxOverlap == 3  \* completion toggles per run of the overlapping-completions specification
MaxSessions == 4 \* work sessions per run of the timer specification
MaxTitleLen == 2 \* characters of a title typed into the task form
MaxSubmits == 2  \* submits of a form (task form, sign-in form) per run

\* ------------------------------------------------------ program constants
Null == -1                       \* completed_at: null
CreateXP == 5                    \* addXP(5, "Task created!")
XpPerLevel == 100                \* Math.floor(newXP / 100) + 1
XpPerMinute == 2                 \* minutes * 2
WorkMinutes == 25                \* completedMinutes of a work session
DefaultXP == 10                  \* ... || 10
TaskMasterCount == 10            \* completedToday >= 10
StreakTarget == 7                \* profile.current_streak >= 7
ShortBreak == 5                  \* sessionCount % 4 === 3 ? 30 : 5
LongBreak == 30                  \* sessionCount % 4 === 3 ? 30 : 5
SessionsPerCycle == 4
PasswordMin == 8                 \* signUpSchema: password min(8)
PasswordRequired == 1            \* signInSchema: password min(1)
UsernameMin == 3                 \* signUpSchema: username min(3)
UsernameMax == 20                \* signUpSchema: username max(20)            \* sessionCount % 4

Priorities == {"low", "medium", "high"}
AchievementIds == {"first_task", "task_master", "consistency_king"}
ToastKinds == AchievementIds \cup {"xp", "level_up", "error", "deleted"}
StartKinds == {"fresh", "streak6", "today9", "burst7"}
OpKinds == {"create", "edit", "toggle", "delete"}
EditPriorities == {"high"}

VARIABLES
    today,        \* calendar day of new Date()
    tasks,        \* useState<Task[]>: the local task list, newest first
    db,           \* rows of the tasks table of the storage collaborator
    profile,      \* the profile held by useAuth
    sessions,     \* rows of the focus_sessions table
    jobs,         \* handler invocations in flight, by invocation number
    timers,       \* pending setTimeout callbacks, in the order they were set
    nextId,       \* next identifier the storage collaborator hands out
    ops,          \* number of user-level operations issued so far
    toasts,       \* number of notifications shown, per kind
    start,        \* which initial record this run started from
    grants,       \* per achievement, how often its XP bonus was written
    xpAwarded,    \* sum of the amounts addXP has been called with
    nCreated,     \* successful createTask calls
    nCompleting,  \* successful completing toggles
    nCompleted,   \* incomplete-to-complete transitions of tasks of the list
    nFailures,    \* failures the storage collaborator has returned, per kind of operation
    minutes,      \* PomodoroTimer useState(25)
    seconds,      \* PomodoroTimer useState(0)
    isActive,     \* PomodoroTimer useState(false)
    isBreak,      \* PomodoroTimer useState(false)
    sessionCount, \* PomodoroTimer useState(0)
    intervals,    \* active setInterval registrations, in the order they were made
    refActive,    \* the registration intervalRef.current names is still active
    nCalls,       \* calls of onSessionComplete
    lastArg,      \* argument of the last call of onSessionComplete
    ticks,        \* interval callbacks run since the remaining time was last set whole
    breakLen,     \* minutes the break in progress was started with
    op,           \* the last step of the timer
    formTitle,    \* TaskForm formData.title, a sequence of characters
    formSubmits,  \* calls of handleSubmit of TaskForm
    lastSubmitted, \* title of the last onSubmit call of TaskForm
    isSignUp,     \* Auth useState(false)
    authData,     \* Auth formData: email, password, username
    errors,       \* Auth errors, per field ("" when none)
    isSubmitting, \* Auth useState(false)
    authSubmits,  \* calls of handleSubmit of Auth
    authCalls,    \* calls of signUp and signIn
    lastCall      \* the last call of signUp or signIn

timerVars == <<minutes, seconds, isActive, isBreak, sessionCount, intervals, refActive,
               nCalls, lastArg, ticks, breakLen, op>>

formVars == <<formTitle, formSubmits, lastSubmitted>>

authVars == <<isSignUp, authData, errors, isSubmitting, authSubmits, authCalls, lastCall>>

\* what the task manager leaves alone
sideVars == <<timerVars, formVars, authVars>>

taskVars == <<today, tasks, db, profile, sessions, jobs, timers, nextId, ops, toasts,
              start, grants, xpAwarded, nCreated, nCompleting, nCompleted, nFailures>>

vars == <<today, tasks, db, profile, sessions, jobs, timers, nextId, ops, toasts,
          start, grants, xpAwarded, nCreated, nCompleting, nCompleted, nFailures,
          minutes, seconds, isActive, isBreak, sessionCount, intervals, refActive,
          nCalls, lastArg, ticks, breakLen, op,
          formTitle, formSubmits, lastSubmitted,
          isSignUp, authData, errors, isSubmitting, authSubmits, authCalls, lastCall>>

\* ------------------------------------------------------------ pure helpers
Max(a, b) == IF a >= b THEN a ELSE b

Includes(s, x) == \E i \in 1..Len(s) : s[i] = x

Occurrences(s, x) == Cardinality({i \in 1..Len(s) : s[i] = x})

\* const newLevel = Math.floor(newXP / 100) + 1
Level(xp) == (xp \div XpPerLevel) + 1

\* ({ low: 10, medium: 15, high: 25 })[priority] || 10
XpAmount(priority) ==
    CASE priority = "low" -> 10
      [] priority = "medium" -> 15
      [] priority = "high" -> 25
      [] OTHER -> DefaultXP

\* { first_task: 10, task_master: 100, consistency_king: 200 }[ach] || 0
BonusXP(ach) ==
    CASE ach = "first_task" -> 10
      [] ach = "task_master" -> 100
      [] ach = "consistency_king" -> 200
      [] OTHER -> 0

RECURSIVE AchievementXP(_)
AchievementXP(s) == IF s = <<>> THEN 0 ELSE BonusXP(Head(s)) + AchievementXP(Tail(s))

\* updateProfile(updates): the given fields replace those of the stored profile
UpdateProfile(p, updates) ==
    [f \in DOMAIN p |-> IF f \in DOMAIN updates THEN updates[f] ELSE p[f]]

\* tasks.find(t => t.id === taskId)
HasTask(T, id) == \E i \in 1..Len(T) : T[i].id = id
FindTask(T, id) == T[CHOOSE i \in 1..Len(T) : T[i].id = id /\ \A k \in 1..(i-1) : T[k].id # id]

\* a toggle whose updates object carries the flag without the time
MapUpdateFlagOnly(T, id, completed, at) ==
    [i \in 1..Len(T) |->
        IF T[i].id = id THEN [T[i] EXCEPT !.completed = completed] ELSE T[i]]

\* prev.map(t => t.id === taskId ? { ...t, ...updates } : t)
MapUpdate(T, id, completed, at) ==
    [i \in 1..Len(T) |->
        IF T[i].id = id THEN [T[i] EXCEPT !.completed = completed, !.completed_at = at]
        ELSE T[i]]

\* prev.map(task => task.id === taskId ? { ...task, ...updates } : task), with
\* the updates of the task form: of the fields kept here, the priority
MapEdit(T, id, priority) ==
    [i \in 1..Len(T) |-> IF T[i].id = id THEN [T[i] EXCEPT !.priority = priority] ELSE T[i]]

\* prev.filter(task => task.id === taskId)
RECURSIVE FilterOutInverted(_, _)
FilterOutInverted(T, id) ==
    IF T = <<>> THEN <<>>
    ELSE IF Head(T).id # id THEN FilterOutInverted(Tail(T), id)
    ELSE <<Head(T)>> \o FilterOutInverted(Tail(T), id)

\* prev.filter(task => task.id !== taskId)
RECURSIVE FilterOut(_, _)
FilterOut(T, id) ==
    IF T = <<>> THEN <<>>
    ELSE IF Head(T).id = id THEN FilterOut(Tail(T), id)
    ELSE <<Head(T)>> \o FilterOut(Tail(T), id)

\* tasks.filter(task => task.completed && task.completed_at && sameDay).length
CompletedToday(T, d) ==
    Cardinality({i \in 1..Len(T) :
        T[i].completed /\ T[i].completed_at # Null /\ T[i].completed_at = d})

\* the newAchievements array of checkAchievements, in push order
NewAchievements(completedTasksCount, P, T, d) ==
    (IF completedTasksCount = 1 /\ ~Includes(P.achievements, "first_task")
        THEN <<"first_task">> ELSE <<>>)
    \o (IF CompletedToday(T, d) >= TaskMasterCount /\ ~Includes(P.achievements, "task_master")
        THEN <<"task_master">> ELSE <<>>)
    \o (IF P.current_streak >= StreakTarget /\ ~Includes(P.achievements, "consistency_king")
        THEN <<"consistency_king">> ELSE <<>>)

\* the updates object of addXP, computed from the profile of the closure
AddXPUpdates(P, amount) ==
    [total_xp |-> P.total_xp + amount, current_level |-> Level(P.total_xp + amount)]

\* the toasts of addXP: the level-up notice if leveledUp, the XP notice always
AddXPToasts(t, P, amount) ==
    [k \in ToastKinds |->
        IF k = "xp" THEN t[k] + 1
        ELSE IF k = "level_up" /\ Level(P.total_xp + amount) > P.current_level THEN t[k] + 1
        ELSE t[k]]

\* toggleTaskComplete writing the old longest_streak back, without Math.max
CompletionUpdatesNoMax(P) ==
    [tasks_completed |-> P.tasks_completed + 1,
     current_streak |-> P.current_streak + 1,
     longest_streak |-> P.longest_streak]

\* the updates object of toggleTaskComplete for a completing toggle
CompletionUpdates(P) ==
    [tasks_completed |-> P.tasks_completed + 1,
     current_streak |-> P.current_streak + 1,
     longest_streak |-> Max(P.longest_streak, P.current_streak + 1)]

\* the updates object of checkAchievements
AchievementUpdates(P, new) ==
    [achievements |-> P.achievements \o new,
     total_xp |-> P.total_xp + AchievementXP(new)]

Toast(t, kind) == [t EXCEPT ![kind] = @ + 1]

\* the failures returned so far, after an operation of this kind returned
Returned(n, kind, ok) == IF ok THEN n ELSE [n EXCEPT ![kind] = @ + 1]

Drop(j) == [k \in DOMAIN jobs \ {j} |-> jobs[k]]

\* the pending timers without the one that fired
Remove(q, i) == SubSeq(q, 1, i - 1) \o SubSeq(q, i + 1, Len(q))

\* ----------------------------------------------------- initial records
Task(id, priority, completed, at) ==
    [id |-> id, priority |-> priority, completed |-> completed, completed_at |-> at]

\* n low-priority tasks, identifiers 101.., all completed on day d
RECURSIVE Loaded(_, _)
Loaded(n, d) == IF n = 0 THEN <<>> ELSE <<Task(100 + n, "low", TRUE, d)>> \o Loaded(n - 1, d)

FreshProfile ==
    [total_xp |-> 0, current_level |-> 1, current_streak |-> 0, longest_streak |-> 0,
     tasks_completed |-> 0, focus_minutes |-> 0, achievements |-> <<>>]

\* seven tasks created one after the other, six of them then completed on day 0
Streak6Profile ==
    [total_xp |-> 95, current_level |-> 1, current_streak |-> 6, longest_streak |-> 6,
     tasks_completed |-> 6, focus_minutes |-> 0, achievements |-> <<"first_task">>]

\* ten tasks created one after the other, nine of them then completed on day 1
Today9Profile ==
    [total_xp |-> 330, current_level |-> 4, current_streak |-> 9, longest_streak |-> 9,
     tasks_completed |-> 9, focus_minutes |-> 0,
     achievements |-> <<"first_task", "consistency_king">>]

\* eleven tasks created one after the other, nine of them then completed on
\* day 1: five one after the other, then twice two at the same moment
Burst7Profile ==
    [total_xp |-> 125, current_level |-> 2, current_streak |-> 7, longest_streak |-> 7,
     tasks_completed |-> 7, focus_minutes |-> 0, achievements |-> <<"first_task">>]

\* the task list loadTasks returns: the open tasks and the completed ones
StartTasks(s) ==
    CASE s = "fresh" -> <<>>
      [] s = "streak6" -> <<Task(1, "low", FALSE, Null)>> \o Loaded(6, 0)
      [] s = "today9" -> <<Task(1, "low", FALSE, Null)>> \o Loaded(9, 1)
      [] s = "burst7" -> <<Task(2, "low", FALSE, Null), Task(1, "low", FALSE, Null)>>
                         \o Loaded(9, 1)

StartProfile(s) ==
    CASE s = "fresh" -> FreshProfile
      [] s = "streak6" -> Streak6Profile
      [] s = "today9" -> Today9Profile
      [] s = "burst7" -> Burst7Profile

\* the state of PomodoroTimer after its first render
TimerInit ==
    /\ minutes = WorkMinutes
    /\ seconds = 0
    /\ isActive = FALSE
    /\ isBreak = FALSE
    /\ sessionCount = 0
    /\ intervals = <<>>
    /\ refActive = FALSE
    /\ nCalls = 0
    /\ lastArg = 0
    /\ ticks = 0
    /\ breakLen = 0
    /\ op = "none"

\* the state of TaskForm after its first render
FormInit ==
    /\ formTitle = <<>>
    /\ formSubmits = 0
    /\ lastSubmitted = <<>>

AuthFields == {"email", "password", "username"}

\* the state of Auth after its first render
AuthInit ==
    /\ isSignUp = FALSE
    /\ authData = [email |-> <<>>, password |-> <<>>, username |-> <<>>]
    /\ errors = [f \in AuthFields |-> ""]
    /\ isSubmitting = FALSE
    /\ authSubmits = 0
    /\ authCalls = 0
    /\ lastCall = [fn |-> "none"]

Init ==
    /\ start \in StartKinds
    /\ today = 1
    /\ tasks = StartTasks(start)
    /\ db = {tasks[i] : i \in 1..Len(tasks)}
    /\ profile = StartProfile(start)
    /\ sessions = <<>>
    /\ jobs = <<>>
    /\ timers = <<>>
    /\ nextId = Len(tasks) - CompletedToday(tasks, 0) - CompletedToday(tasks, 1) + 1
    /\ ops = 0
    /\ toasts = [k \in ToastKinds |-> 0]
    /\ grants = [a \in AchievementIds |-> 0]
    /\ xpAwarded = 0
    /\ nCreated = 0
    /\ nCompleting = 0
    /\ nCompleted = 0
    /\ nFailures = [k \in OpKinds |-> 0]
    /\ TimerInit
    /\ FormInit
    /\ AuthInit

\* -------------------------------------------------------------- actions
NewJob(kind, pc, id, prio, completing, at) ==
    [kind |-> kind, pc |-> pc, P |-> profile, T |-> tasks, id |-> id,
     priority |-> prio, completing |-> completing, at |-> at, due |-> {}]

\* the number of user-level operations a run issues
OpsLimit == IF start = "overlap" THEN MaxOverlap ELSE MaxOps

Issue(job) ==
    /\ ops < OpsLimit
    /\ ops' = ops + 1
    /\ jobs' = jobs @@ ((ops + 1) :> job)

\* midnight passes
AdvanceDay ==
    /\ today < MaxDay
    /\ today' = today + 1
    /\ UNCHANGED <<nCompleting, timers, tasks, db, profile, sessions, jobs, nextId, ops, toasts,
                   start, grants, xpAwarded, nCreated, nCompleted>>
    /\ UNCHANGED <<nFailures, sideVars>>

\* createTask up to the await of the insert: what it does to the task manager
CreateTaskCall(priority) ==
    /\ Issue(NewJob("create", "insert", 0, priority, FALSE, Null))
    /\ UNCHANGED <<nCompleting, timers, today, tasks, db, profile, sessions, nextId, toasts,
                   start, grants, xpAwarded, nCreated, nCompleted>>
    /\ UNCHANGED <<nFailures, timerVars, authVars>>

\* createTask up to the await of the insert, called with a title the form let pass
CreateTask(priority) ==
    /\ CreateTaskCall(priority)
    /\ UNCHANGED formVars

\* createTask that takes the insert for done whatever it returned
CreateReturnOptimistic(j, ok) ==
    /\ j \in DOMAIN jobs
    /\ jobs[j].kind = "create"
    /\ jobs' = Drop(j)
    /\ LET data == Task(nextId, jobs[j].priority, FALSE, Null) IN
        /\ db' = IF ok THEN db \cup {data} ELSE db
        /\ nextId' = nextId + 1
        /\ tasks' = <<data>> \o tasks
        /\ profile' = UpdateProfile(profile, AddXPUpdates(jobs[j].P, CreateXP))
        /\ toasts' = AddXPToasts(toasts, jobs[j].P, CreateXP)
        /\ xpAwarded' = xpAwarded + CreateXP
        /\ nCreated' = nCreated + 1
    /\ UNCHANGED <<nCompleting, timers, today, sessions, ops, start, grants, nCompleted>>
    /\ nFailures' = Returned(nFailures, "create", ok)
    /\ UNCHANGED sideVars

\* createTask from the return of the insert
CreateReturn(j, ok) ==
    /\ j \in DOMAIN jobs
    /\ jobs[j].kind = "create"
    /\ jobs' = Drop(j)
    /\ IF ok
       THEN LET data == Task(nextId, jobs[j].priority, FALSE, Null) IN
            /\ db' = db \cup {data}
            /\ nextId' = nextId + 1
            /\ tasks' = <<data>> \o tasks
            /\ profile' = UpdateProfile(profile, AddXPUpdates(jobs[j].P, CreateXP))
            /\ toasts' = AddXPToasts(toasts, jobs[j].P, CreateXP)
            /\ xpAwarded' = xpAwarded + CreateXP
            /\ nCreated' = nCreated + 1
       ELSE /\ toasts' = Toast(toasts, "error")
            /\ UNCHANGED <<db, nextId, tasks, profile, xpAwarded, nCreated>>
    /\ UNCHANGED <<nCompleting, timers, today, sessions, ops, start, grants, nCompleted>>
    /\ nFailures' = Returned(nFailures, "create", ok)
    /\ UNCHANGED sideVars

\* the completing update of task id turns a task of the list T from incomplete
\* to complete
Flips(T, id) == HasTask(T, id) /\ ~FindTask(T, id).completed

\* task_master comes due when the step to the task list T2 brings the tasks
\* completed on day d to TaskMasterCount while task_master is locked
DueTaskMaster(T2, d) ==
    {a \in {"task_master"} :
        /\ CompletedToday(T2, d) = TaskMasterCount
        /\ CompletedToday(tasks, d) < TaskMasterCount
        /\ ~Includes(profile.achievements, a)}

\* consistency_king comes due when the step to the profile p2 raises the streak
\* to StreakTarget or more while consistency_king is locked
DueConsistencyKing(p2) ==
    {a \in {"consistency_king"} :
        /\ p2.current_streak >= StreakTarget
        /\ p2.current_streak > profile.current_streak
        /\ ~Includes(profile.achievements, a)}

\* the tasks the user acts on: the open ones and those created during the run
TouchIds == 1..(MaxOps + 2)

\* an updates object that stamps the time whichever way the flag goes
CompletedAtAlways(isCompleting, d) == d

\* completed_at: isCompleting ? new Date().toISOString() : null
CompletedAt(isCompleting, d) == IF isCompleting THEN d ELSE Null

\* toggleTaskComplete up to the await of the update
ToggleTaskComplete(id) ==
    /\ id \in TouchIds
    /\ HasTask(tasks, id)
    /\ LET task == FindTask(tasks, id)
           isCompleting == ~task.completed
       IN Issue(NewJob("toggle", "update", id, task.priority, isCompleting,
                       CompletedAt(isCompleting, today)))
    /\ UNCHANGED <<nCompleting, timers, today, tasks, db, profile, sessions, nextId, toasts,
                   start, grants, xpAwarded, nCreated, nCompleted>>
    /\ UNCHANGED <<nFailures, sideVars>>

\* toggleTaskComplete from the return of the update to the await of updateProfile
ToggleReturn(j, ok) ==
    /\ j \in DOMAIN jobs
    /\ jobs[j].kind = "toggle"
    /\ jobs[j].pc = "update"
    /\ IF ~ok
       THEN /\ toasts' = Toast(toasts, "error")
            /\ jobs' = Drop(j)
            /\ UNCHANGED <<db, tasks, timers, nCompleting, nCompleted>>
       ELSE /\ db' = {IF r.id = jobs[j].id
                         THEN [r EXCEPT !.completed = jobs[j].completing,
                                        !.completed_at = jobs[j].at]
                         ELSE r : r \in db}
            /\ tasks' = MapUpdate(tasks, jobs[j].id, jobs[j].completing, jobs[j].at)
            /\ IF jobs[j].completing
               THEN /\ timers' = Append(timers, [fn |-> "addXP", job |-> j])
                    /\ jobs' = [jobs EXCEPT ![j].pc = "updateProfile",
                                            ![j].due = DueTaskMaster(tasks', today)]
                    /\ nCompleting' = nCompleting + 1
                    /\ nCompleted' = IF Flips(tasks, jobs[j].id)
                                        THEN nCompleted + 1 ELSE nCompleted
               ELSE /\ jobs' = Drop(j)
                    /\ UNCHANGED <<timers, nCompleting, nCompleted>>
            /\ UNCHANGED toasts
    /\ UNCHANGED <<today, profile, sessions, nextId, ops, start, grants, xpAwarded, nCreated>>
    /\ nFailures' = Returned(nFailures, "toggle", ok)
    /\ UNCHANGED sideVars

\* toggleTaskComplete from the return of updateProfile to its end
ToggleProfileUpdated(j) ==
    /\ j \in DOMAIN jobs
    /\ jobs[j].pc = "updateProfile"
    /\ profile' = UpdateProfile(profile, CompletionUpdates(jobs[j].P))
    /\ timers' = Append(timers, [fn |-> "checkAchievements", job |-> j])
    /\ jobs' = [jobs EXCEPT ![j].pc = "deferred",
                            ![j].due = @ \cup DueConsistencyKing(profile')]
    /\ UNCHANGED <<nCompleting, today, tasks, db, sessions, nextId, ops, toasts, start, grants,
                   xpAwarded, nCreated, nCompleted>>
    /\ UNCHANGED <<nFailures, sideVars>>

\* setTimeout(() => addXP(xpAmount, ...), 100) comes due: no addXP timer set
\* earlier is still pending
DeferredAddXP(i) ==
    /\ i \in 1..Len(timers)
    /\ timers[i].fn = "addXP"
    /\ \A k \in 1..(i - 1) : timers[k].fn # "addXP"
    /\ LET j == timers[i].job
           amount == XpAmount(jobs[j].priority)
       IN /\ profile' = UpdateProfile(profile, AddXPUpdates(jobs[j].P, amount))
          /\ toasts' = AddXPToasts(toasts, jobs[j].P, amount)
          /\ xpAwarded' = xpAwarded + amount
    /\ timers' = Remove(timers, i)
    /\ UNCHANGED <<nCompleting, today, tasks, db, sessions, jobs, nextId, ops, start, grants,
                   nCreated, nCompleted>>
    /\ UNCHANGED <<nFailures, sideVars>>

\* setTimeout(() => checkAchievements(newTasksCompleted), 200) comes due: no
\* timer set earlier is still pending
DeferredCheckAchievements(i) ==
    /\ i = 1
    /\ i \in 1..Len(timers)
    /\ timers[i].fn = "checkAchievements"
    /\ LET j == timers[i].job
           P == jobs[j].P
           new == NewAchievements(P.tasks_completed + 1, P, jobs[j].T, today)
       IN /\ toasts' = [k \in ToastKinds |-> IF Includes(new, k) THEN toasts[k] + 1 ELSE toasts[k]]
          /\ grants' = [a \in AchievementIds |-> IF Includes(new, a) THEN grants[a] + 1 ELSE grants[a]]
          /\ profile' = IF Len(new) > 0
                           THEN UpdateProfile(profile, AchievementUpdates(P, new))
                           ELSE profile
          /\ jobs' = Drop(j)
    /\ timers' = Remove(timers, i)
    /\ UNCHANGED <<nCompleting, today, tasks, db, sessions, nextId, ops, start,
                   xpAwarded, nCreated, nCompleted>>
    /\ UNCHANGED <<nFailures, sideVars>>

\* updateTask(editingTask.id, data) up to the await of the update: what it does
\* to the task manager
UpdateTaskCall(id, priority) ==
    /\ id \in TouchIds
    /\ HasTask(tasks, id)
    /\ Issue(NewJob("edit", "update", id, priority, FALSE, Null))
    /\ UNCHANGED <<nCompleting, timers, today, tasks, db, profile, sessions, nextId, toasts,
                   start, grants, xpAwarded, nCreated, nCompleted>>
    /\ UNCHANGED <<nFailures, timerVars, authVars>>

\* the task form submits an edit: updateTask(editingTask.id, data) up to the
\* await of the update
UpdateTask(id, priority) ==
    /\ UpdateTaskCall(id, priority)
    /\ UNCHANGED formVars

\* updateTask from the return of the update
UpdateReturn(j, ok) ==
    /\ j \in DOMAIN jobs
    /\ jobs[j].kind = "edit"
    /\ jobs' = Drop(j)
    /\ IF ok
       THEN /\ db' = {IF r.id = jobs[j].id THEN [r EXCEPT !.priority = jobs[j].priority]
                      ELSE r : r \in db}
            /\ tasks' = MapEdit(tasks, jobs[j].id, jobs[j].priority)
            /\ UNCHANGED toasts
       ELSE /\ toasts' = Toast(toasts, "error")
            /\ UNCHANGED <<db, tasks>>
    /\ UNCHANGED <<nCompleting, timers, today, profile, sessions, nextId, ops, start, grants,
                   xpAwarded, nCreated, nCompleted>>
    /\ nFailures' = Returned(nFailures, "edit", ok)
    /\ UNCHANGED sideVars

\* deleteTask up to the await of the delete
DeleteTask(id) ==
    /\ id \in TouchIds
    /\ HasTask(tasks, id)
    /\ Issue(NewJob("delete", "delete", id, "low", FALSE, Null))
    /\ UNCHANGED <<nCompleting, timers, today, tasks, db, profile, sessions, nextId, toasts,
                   start, grants, xpAwarded, nCreated, nCompleted>>
    /\ UNCHANGED <<nFailures, sideVars>>

\* deleteTask that removes the task from the list whatever the delete returned
DeleteReturnOptimistic(j, ok) ==
    /\ j \in DOMAIN jobs
    /\ jobs[j].kind = "delete"
    /\ jobs' = Drop(j)
    /\ db' = IF ok THEN {r \in db : r.id # jobs[j].id} ELSE db
    /\ tasks' = FilterOut(tasks, jobs[j].id)
    /\ toasts' = Toast(toasts, IF ok THEN "deleted" ELSE "error")
    /\ UNCHANGED <<nCompleting, timers, today, profile, sessions, nextId, ops, start, grants,
                   xpAwarded, nCreated, nCompleted>>
    /\ nFailures' = Returned(nFailures, "delete", ok)
    /\ UNCHANGED sideVars

\* deleteTask from the return of the delete
DeleteReturn(j, ok) ==
    /\ j \in DOMAIN jobs
    /\ jobs[j].kind = "delete"
    /\ jobs' = Drop(j)
    /\ IF ok
       THEN /\ db' = {r \in db : r.id # jobs[j].id}
            /\ tasks' = FilterOut(tasks, jobs[j].id)
            /\ toasts' = Toast(toasts, "deleted")
       ELSE /\ toasts' = Toast(toasts, "error")
            /\ UNCHANGED <<db, tasks>>
    /\ UNCHANGED <<nCompleting, timers, today, profile, sessions, nextId, ops, start, grants,
                   xpAwarded, nCreated, nCompleted>>
    /\ nFailures' = Returned(nFailures, "delete", ok)
    /\ UNCHANGED sideVars

\* a handler that awards the XP and saves the session without the focus minutes
RecordFocusXPOnly(mins, ok) ==
    /\ LET xpGained == mins * XpPerMinute IN
        /\ profile' = UpdateProfile(profile, AddXPUpdates(profile, xpGained))
        /\ toasts' = AddXPToasts(toasts, profile, xpGained)
        /\ xpAwarded' = xpAwarded + xpGained
    /\ sessions' = IF ok
                      THEN Append(sessions, [duration_minutes |-> mins, session_type |-> "work"])
                      ELSE sessions

\* the body of onFocusComplete(mins): addXP, the focus minutes, the session
\* record, which storage takes (ok) or not
RecordFocus(mins, ok) ==
    /\ LET xpGained == mins * XpPerMinute IN
        /\ profile' = UpdateProfile(UpdateProfile(profile, AddXPUpdates(profile, xpGained)),
                                    [focus_minutes |-> profile.focus_minutes + mins])
        /\ toasts' = AddXPToasts(toasts, profile, xpGained)
        /\ xpAwarded' = xpAwarded + xpGained
    /\ sessions' = IF ok
                      THEN Append(sessions, [duration_minutes |-> mins, session_type |-> "work"])
                      ELSE sessions

\* onFocusComplete(mins), called by the timer with the handler of the last render
OnFocusComplete(mins, ok) ==
    /\ ops < MaxOps
    /\ ops' = ops + 1
    /\ RecordFocus(mins, ok)
    /\ UNCHANGED <<nCompleting, timers, today, tasks, db, jobs, nextId, start, grants, nCreated, nCompleted>>
    /\ UNCHANGED <<nFailures, sideVars>>

Next ==
    \/ AdvanceDay
    \/ \E priority \in Priorities : CreateTask(priority)
    \/ \E j \in 1..MaxOps, ok \in BOOLEAN : CreateReturn(j, ok)
    \/ \E id \in TouchIds : ToggleTaskComplete(id)
    \/ \E j \in 1..MaxOps, ok \in BOOLEAN : ToggleReturn(j, ok)
    \/ \E j \in 1..MaxOps : ToggleProfileUpdated(j)
    \/ \E i \in 1..(2 * MaxOps) : DeferredAddXP(i)
    \/ \E i \in 1..(2 * MaxOps) : DeferredCheckAchievements(i)
    \/ \E id \in TouchIds : DeleteTask(id)
    \/ \E j \in 1..MaxOps, ok \in BOOLEAN : DeleteReturn(j, ok)
    \/ \E ok \in BOOLEAN : OnFocusComplete(WorkMinutes, ok)

Spec == Init /\ [][Next]_vars

\* --------------------------------------------------- edits of the task form
\* the records of a user whose completions did not overlap
StorageStartKinds == {"fresh", "streak6", "today9"}

InitStorage ==
    /\ start \in StorageStartKinds
    /\ Init

\* the user also edits tasks through the task form
NextStorage ==
    \/ Next
    \/ \E id \in TouchIds, priority \in EditPriorities : UpdateTask(id, priority)
    \/ \E j \in 1..MaxOps, ok \in BOOLEAN : UpdateReturn(j, ok)

SpecStorage == InitStorage /\ [][NextStorage]_vars

\* ------------------------------------------- overlapping completions
\* three tasks created one after the other on a fresh profile, none completed
OverlapProfile ==
    [total_xp |-> 15, current_level |-> 1, current_streak |-> 0, longest_streak |-> 0,
     tasks_completed |-> 0, focus_minutes |-> 0, achievements |-> <<>>]

OverlapTasks ==
    <<Task(3, "low", FALSE, Null), Task(2, "low", FALSE, Null), Task(1, "low", FALSE, Null)>>

InitOverlap ==
    /\ start = "overlap"
    /\ today = 1
    /\ tasks = OverlapTasks
    /\ db = {tasks[i] : i \in 1..Len(tasks)}
    /\ profile = OverlapProfile
    /\ sessions = <<>>
    /\ jobs = <<>>
    /\ timers = <<>>
    /\ nextId = Len(tasks) + 1
    /\ ops = 0
    /\ toasts = [k \in ToastKinds |-> 0]
    /\ grants = [a \in AchievementIds |-> 0]
    /\ xpAwarded = 0
    /\ nCreated = 0
    /\ nCompleting = 0
    /\ nCompleted = 0
    /\ nFailures = [k \in OpKinds |-> 0]
    /\ TimerInit
    /\ FormInit
    /\ AuthInit

\* the user only toggles tasks
NextOverlap ==
    \/ \E id \in TouchIds : ToggleTaskComplete(id)
    \/ \E j \in 1..MaxOverlap, ok \in BOOLEAN : ToggleReturn(j, ok)
    \/ \E j \in 1..MaxOverlap : ToggleProfileUpdated(j)
    \/ \E i \in 1..(2 * MaxOverlap) : DeferredAddXP(i)
    \/ \E i \in 1..(2 * MaxOverlap) : DeferredCheckAchievements(i)

SpecOverlap == InitOverlap /\ [][NextOverlap]_vars

\* ------------------------------------------------------------ task form
\* TaskForm (TaskList.tsx, lines 161-334).  A title is a sequence of characters.

\* the characters of the titles tried: two kinds of white space and a letter
TitleChars == {" ", "\t", "a"}

\* what String.prototype.trim takes off
WhiteSpace == {" ", "\t"}

Titles == UNION {[1..n -> TitleChars] : n \in 0..MaxTitleLen}

\* a trim that takes nothing off
TrimNone(t) == t

\* formData.title.trim(): the title without the white space at its two ends
RECURSIVE Trim(_)
Trim(t) ==
    IF t = <<>> THEN t
    ELSE IF Head(t) \in WhiteSpace THEN Trim(Tail(t))
    ELSE IF t[Len(t)] \in WhiteSpace THEN Trim(SubSeq(t, 1, Len(t) - 1))
    ELSE t

\* onChange of the title input: setFormData(prev => ({ ...prev, title: value }))
SetTitle(t) ==
    /\ t # formTitle
    /\ formTitle' = t
    /\ UNCHANGED <<formSubmits, lastSubmitted>>
    /\ UNCHANGED <<taskVars, timerVars, authVars>>

\* handleSubmit of the form, opened for the task editing or, with editing 0, for
\* a new task: onSubmit is updateTask(editingTask.id, data) or createTask
HandleSubmit(editing, priority) ==
    /\ formSubmits < MaxSubmits
    /\ formSubmits' = formSubmits + 1
    /\ UNCHANGED formTitle
    /\ IF Trim(formTitle) = <<>>
       THEN UNCHANGED <<lastSubmitted, taskVars, timerVars, authVars>>
       ELSE /\ lastSubmitted' = formTitle
            /\ IF editing = 0
               THEN CreateTaskCall(priority)
               ELSE UpdateTaskCall(editing, priority)

InitForm ==
    /\ start = "streak6"
    /\ Init

\* the user types titles and submits the form; storage answers
NextForm ==
    \/ \E t \in Titles : SetTitle(t)
    \/ \E editing \in 0..1, priority \in EditPriorities : HandleSubmit(editing, priority)
    \/ \E j \in 1..MaxOps, ok \in BOOLEAN : CreateReturn(j, ok)
    \/ \E j \in 1..MaxOps, ok \in BOOLEAN : UpdateReturn(j, ok)

SpecForm == InitForm /\ [][NextForm]_vars

\* ------------------------------------------------------- sign-in page
\* Auth (pages/Auth.tsx).  The values of the fields are sequences of characters.

\* n letters
Letters(n) == [i \in 1..n |-> "a"]

\* the addresses typed: none, a@a, a@a.a, a@a.aa, .a@a.aa
EmailSamples ==
    {<<>>,
     <<"a", "@", "a">>,
     <<"a", "@", "a", ".", "a">>,
     <<"a", "@", "a", ".", "a", "a">>,
     <<".", "a", "@", "a", ".", "a", "a">>}

\* the passwords typed, around the two minimal lengths
PasswordSamples == {Letters(n) : n \in {0, 1, 7, 8}}

\* the user names typed, around the two limits
UsernameSamples == {Letters(n) : n \in {0, 2, 3, 20, 21}}

FieldSamples(field) ==
    CASE field = "email" -> EmailSamples
      [] field = "password" -> PasswordSamples
      [] field = "username" -> UsernameSamples

\* z.string().email(): a local part that neither starts nor ends with a dot,
\* one "@", domain labels that are not empty, a last label of two letters or
\* more, and no two dots in a row
IsEmail(e) ==
    LET ats == {i \in 1..Len(e) : e[i] = "@"}
        dots == {i \in 1..Len(e) : e[i] = "."}
    IN /\ Cardinality(ats) = 1
       /\ LET at == CHOOSE i \in ats : TRUE
              domainDots == {i \in dots : i > at}
          IN /\ at > 1
             /\ e[1] # "."
             /\ e[at - 1] # "."
             /\ \A i \in dots : i + 1 \notin dots
             /\ at + 1 \notin dots
             /\ domainDots # {}
             /\ \A i \in domainDots : i < Len(e)
             /\ \E i \in domainDots :
                   /\ \A k \in domainDots : k <= i
                   /\ Len(e) - i >= 2

\* the issue of one check of a schema, or none
Issue1(failed, field, message) ==
    IF failed THEN <<[path |-> field, message |-> message]>> ELSE <<>>

\* signUpSchema.parse(formData): the issues, in the order of the schema
SignUpIssues(d) ==
    Issue1(~IsEmail(d.email), "email", "Invalid email address")
    \o Issue1(Len(d.password) < PasswordMin, "password",
              "Password must be at least 8 characters")
    \o Issue1(Len(d.username) < UsernameMin, "username",
              "Username must be at least 3 characters")
    \o Issue1(Len(d.username) > UsernameMax, "username",
              "Username must be less than 20 characters")

\* a sign-in schema that takes any password
SignInIssuesEmailOnly(d) ==
    Issue1(~IsEmail(d.email), "email", "Invalid email address")

\* signInSchema.parse(formData): the issues, in the order of the schema
SignInIssues(d) ==
    Issue1(~IsEmail(d.email), "email", "Invalid email address")
    \o Issue1(Len(d.password) < PasswordRequired, "password", "Password is required")

\* newErrors[err.path[0]] = err.message for every issue: the last one of a field stays
NewErrors(issues) ==
    [f \in AuthFields |->
        LET at == {i \in 1..Len(issues) : issues[i].path = f}
        IN IF at = {} THEN ""
           ELSE issues[CHOOSE i \in at : \A k \in at : k <= i].message]

NoErrors == [f \in AuthFields |-> ""]

\* handleInputChange(field) with the value typed; the inputs are disabled while
\* submitting and the user name is shown for sign-up only
HandleInputChange(field, value) ==
    /\ ~isSubmitting
    /\ field = "username" => isSignUp
    /\ value # authData[field]
    /\ authData' = [authData EXCEPT ![field] = value]
    /\ errors' = IF errors[field] # "" THEN [errors EXCEPT ![field] = ""] ELSE errors
    /\ UNCHANGED <<isSignUp, isSubmitting, authSubmits, authCalls, lastCall>>
    /\ UNCHANGED <<taskVars, timerVars, formVars>>

\* the buttons that choose between sign-in and sign-up
SetIsSignUp(b) ==
    /\ b # isSignUp \/ errors # NoErrors
    /\ isSignUp' = b
    /\ errors' = NoErrors
    /\ UNCHANGED <<authData, isSubmitting, authSubmits, authCalls, lastCall>>
    /\ UNCHANGED <<taskVars, timerVars, formVars>>

\* handleSubmit of Auth up to the await of signUp or signIn (validateForm included)
AuthHandleSubmit ==
    /\ ~isSubmitting
    /\ authSubmits < MaxSubmits
    /\ authSubmits' = authSubmits + 1
    /\ LET issues == IF isSignUp THEN SignUpIssues(authData) ELSE SignInIssues(authData)
       IN IF issues # <<>>
          THEN /\ errors' = NewErrors(issues)
               /\ UNCHANGED <<isSubmitting, authCalls, lastCall>>
          ELSE /\ errors' = NoErrors
               /\ isSubmitting' = TRUE
               /\ authCalls' = authCalls + 1
               /\ lastCall' = IF isSignUp
                                 THEN [fn |-> "signUp", email |-> authData.email,
                                       password |-> authData.password,
                                       username |-> authData.username]
                                 ELSE [fn |-> "signIn", email |-> authData.email,
                                       password |-> authData.password]
    /\ UNCHANGED <<isSignUp, authData>>
    /\ UNCHANGED <<taskVars, timerVars, formVars>>

\* handleSubmit of Auth after the await: setIsSubmitting(false)
AuthReturned ==
    /\ isSubmitting
    /\ isSubmitting' = FALSE
    /\ UNCHANGED <<isSignUp, authData, errors, authSubmits, authCalls, lastCall>>
    /\ UNCHANGED <<taskVars, timerVars, formVars>>

\* the page on its own, next to a task manager as loaded for a new user
InitAuth ==
    /\ start = "fresh"
    /\ Init

NextAuth ==
    \/ \E field \in AuthFields : \E value \in FieldSamples(field) :
          HandleInputChange(field, value)
    \/ \E b \in BOOLEAN : SetIsSignUp(b)
    \/ AuthHandleSubmit
    \/ AuthReturned

SpecAuth == InitAuth /\ [][NextAuth]_vars

\* ------------------------------------------ storage and its responses
\* The update of updateTask in two steps: storage executes the request, and
\* later the response reaches the handler.  Responses of requests in flight
\* together arrive in any order.

\* the priorities two edits of one task choose between
MirrorPriorities == {"medium", "high"}

\* storage executes the update of the edit j, or refuses it
UpdateApplied(j, ok) ==
    /\ j \in DOMAIN jobs
    /\ jobs[j].kind = "edit"
    /\ jobs[j].pc = "update"
    /\ db' = IF ok
             THEN {IF r.id = jobs[j].id THEN [r EXCEPT !.priority = jobs[j].priority]
                   ELSE r : r \in db}
             ELSE db
    /\ jobs' = [jobs EXCEPT ![j].pc = IF ok THEN "applied" ELSE "refused"]
    /\ UNCHANGED <<nCompleting, timers, today, tasks, profile, sessions, nextId, ops, toasts,
                   start, grants, xpAwarded, nCreated, nCompleted>>
    /\ UNCHANGED <<nFailures, sideVars>>

\* updateTask after the await: the error toast, or the edit mapped into the list
UpdateDelivered(j) ==
    /\ j \in DOMAIN jobs
    /\ jobs[j].kind = "edit"
    /\ jobs[j].pc \in {"applied", "refused"}
    /\ jobs' = Drop(j)
    /\ IF jobs[j].pc = "applied"
       THEN /\ tasks' = MapEdit(tasks, jobs[j].id, jobs[j].priority)
            /\ UNCHANGED toasts
       ELSE /\ toasts' = Toast(toasts, "error")
            /\ UNCHANGED tasks
    /\ UNCHANGED <<nCompleting, timers, today, db, profile, sessions, nextId, ops, start, grants,
                   xpAwarded, nCreated, nCompleted>>
    /\ nFailures' = Returned(nFailures, "edit", jobs[j].pc = "applied")
    /\ UNCHANGED sideVars

\* the user edits tasks, also while an edit is in flight
NextMirror ==
    \/ \E id \in TouchIds, priority \in MirrorPriorities : UpdateTask(id, priority)
    \/ \E j \in 1..MaxOverlap, ok \in BOOLEAN : UpdateApplied(j, ok)
    \/ \E j \in 1..MaxOverlap : UpdateDelivered(j)

SpecMirror == InitOverlap /\ [][NextMirror]_vars

\* ------------------------------------------------------- focus timer
\* PomodoroTimer (lines 809-1008).  A state change renders the component; the
\* cleanup of the previous effect and the effect of the new render run before
\* the next event is handled, so they are part of the step that changed the
\* state.  The effect of a render at 00:00 with the timer running sets state
\* itself: that is the step SessionCompleted, and no other timer step is taken
\* while it is due.

\* a % n of JavaScript: the sign of the result is the sign of a
JsRem(a, n) == IF a >= 0 THEN a % n ELSE -((-a) % n)

\* count % 4 === 0 ? 30 : 5, the long break one session late
BreakMinutesShifted(count) ==
    IF JsRem(count, SessionsPerCycle) = 0 THEN LongBreak ELSE ShortBreak

\* count % 4 === 3 ? 30 : 5
BreakMinutes(count) ==
    IF JsRem(count, SessionsPerCycle) = 3 THEN LongBreak ELSE ShortBreak

\* const completedMinutes = isBreak ? (sessionCount % 4 === 0 ? 30 : 5) : 25
CompletedMinutes(b, count) ==
    IF b THEN (IF JsRem(count, SessionsPerCycle) = 0 THEN LongBreak ELSE ShortBreak)
    ELSE WorkMinutes

\* reset() recomputing the break from sessionCount instead of sessionCount - 1
ResetMinutesNoOffset(b, count) == IF b THEN BreakMinutes(count) ELSE WorkMinutes

\* the minutes reset() sets
ResetMinutes(b, count) == IF b THEN BreakMinutes(count - 1) ELSE WorkMinutes

\* an effect whose cleanup releases nothing
CleanupNone(regs, ref) == [intervals |-> regs, refActive |-> ref]

\* return () => { if (intervalRef.current) clearInterval(intervalRef.current) }:
\* the registration the ref names is the last one made
Cleanup(regs, ref) ==
    [intervals |-> IF ref THEN SubSeq(regs, 1, Len(regs) - 1) ELSE regs,
     refActive |-> FALSE]

\* an effect that cleans up and never arms the interval
RegisteredNever(regs, ref, m, s, a) == Cleanup(regs, ref)

\* the registrations after the render with minutes m, seconds s, isActive a:
\* the cleanup of the previous effect, then the first branch of the new one,
\* whose callback closes over m and s
Registered(regs, ref, m, s, a) ==
    LET c == Cleanup(regs, ref) IN
    IF a /\ (m > 0 \/ s > 0)
    THEN [intervals |-> Append(c.intervals, [minutes |-> m, seconds |-> s]),
          refActive |-> TRUE]
    ELSE c

\* an interval callback that borrows no minute
TickUpdateNoBorrow(c, m, s) ==
    IF c.seconds > 0 THEN [minutes |-> m, seconds |-> c.seconds - 1]
    ELSE IF c.minutes > 0 THEN [minutes |-> m, seconds |-> 59]
    ELSE [minutes |-> m, seconds |-> s]

\* the interval callback of the closure c, in a component showing m and s
TickUpdate(c, m, s) ==
    IF c.seconds > 0 THEN [minutes |-> m, seconds |-> c.seconds - 1]
    ELSE IF c.minutes > 0 THEN [minutes |-> c.minutes - 1, seconds |-> 59]
    ELSE [minutes |-> m, seconds |-> s]

\* the effect of the last render has its second branch to run
EffectDue == isActive /\ minutes = 0 /\ seconds = 0

\* registration i fires
Tick(i) ==
    /\ i \in 1..Len(intervals)
    /\ ~EffectDue
    /\ isBreak \/ sessionCount < MaxSessions
    /\ LET t == TickUpdate(intervals[i], minutes, seconds)
           r == IF t.minutes # minutes \/ t.seconds # seconds
                   THEN Registered(intervals, refActive, t.minutes, t.seconds, isActive)
                   ELSE [intervals |-> intervals, refActive |-> refActive]
       IN /\ minutes' = t.minutes
          /\ seconds' = t.seconds
          /\ intervals' = r.intervals
          /\ refActive' = r.refActive
    /\ ticks' = ticks + 1
    /\ op' = "tick"
    /\ UNCHANGED <<isActive, isBreak, sessionCount, nCalls, lastArg, breakLen>>
    /\ UNCHANGED <<taskVars, formVars, authVars>>

\* the first branch of "if (!isBreak)": a work session is over
WorkCompleted ==
    /\ nCalls' = nCalls + 1
    /\ lastArg' = CompletedMinutes(isBreak, sessionCount)
    /\ sessionCount' = sessionCount + 1
    /\ isBreak' = TRUE
    /\ minutes' = BreakMinutes(sessionCount)
    /\ seconds' = 0
    /\ breakLen' = BreakMinutes(sessionCount)

\* a break whose end is reported and counted like the end of a work session
BreakCompletedReporting ==
    /\ nCalls' = nCalls + 1
    /\ lastArg' = CompletedMinutes(isBreak, sessionCount)
    /\ sessionCount' = sessionCount + 1
    /\ isBreak' = FALSE
    /\ minutes' = WorkMinutes
    /\ seconds' = 0
    /\ breakLen' = 0

\* the else branch of "if (!isBreak)": a break is over
BreakCompleted ==
    /\ isBreak' = FALSE
    /\ minutes' = WorkMinutes
    /\ seconds' = 0
    /\ breakLen' = 0
    /\ UNCHANGED <<nCalls, lastArg, sessionCount>>

\* the second branch of the effect, for a render at 00:00 with the timer running:
\* what it does to the timer
SessionEnd ==
    /\ EffectDue
    /\ isActive' = FALSE
    /\ IF ~isBreak THEN WorkCompleted ELSE BreakCompleted
    /\ LET r == Registered(intervals, refActive, minutes', seconds', FALSE)
       IN intervals' = r.intervals /\ refActive' = r.refActive
    /\ ticks' = 0
    /\ op' = "complete"

\* the session-end step with an onSessionComplete that changes nothing
SessionCompleted ==
    /\ SessionEnd
    /\ UNCHANGED <<taskVars, formVars, authVars>>

\* the session-end step with onSessionComplete={onFocusComplete} (line 743)
FocusSessionCompleted ==
    /\ SessionEnd
    /\ IF nCalls' # nCalls
       THEN \E ok \in BOOLEAN : RecordFocus(lastArg', ok)
       ELSE UNCHANGED <<profile, toasts, xpAwarded, sessions>>
    /\ UNCHANGED <<nCompleting, timers, today, tasks, db, jobs, nextId, ops, start, grants,
                   nCreated, nCompleted, nFailures>>
    /\ UNCHANGED <<formVars, authVars>>

\* toggle()
Toggle ==
    /\ ~EffectDue
    /\ isActive' = ~isActive
    /\ LET r == Registered(intervals, refActive, minutes, seconds, ~isActive)
       IN intervals' = r.intervals /\ refActive' = r.refActive
    /\ op' = "toggle"
    /\ UNCHANGED <<minutes, seconds, isBreak, sessionCount, nCalls, lastArg, ticks, breakLen>>
    /\ UNCHANGED <<taskVars, formVars, authVars>>

\* a reset that also goes back to a work session
ResetToWork ==
    /\ ~EffectDue
    /\ isActive' = FALSE
    /\ isBreak' = FALSE
    /\ minutes' = WorkMinutes
    /\ seconds' = 0
    /\ LET r == Registered(intervals, refActive, minutes', 0, FALSE)
       IN intervals' = r.intervals /\ refActive' = r.refActive
    /\ ticks' = 0
    /\ op' = "reset"
    /\ UNCHANGED <<sessionCount, nCalls, lastArg, breakLen>>
    /\ UNCHANGED <<taskVars, formVars, authVars>>

\* reset()
Reset ==
    /\ ~EffectDue
    /\ isActive' = FALSE
    /\ minutes' = ResetMinutes(isBreak, sessionCount)
    /\ seconds' = 0
    /\ LET r == Registered(intervals, refActive, minutes', 0, FALSE)
       IN intervals' = r.intervals /\ refActive' = r.refActive
    /\ ticks' = 0
    /\ op' = "reset"
    /\ UNCHANGED <<isBreak, sessionCount, nCalls, lastArg, breakLen>>
    /\ UNCHANGED <<taskVars, formVars, authVars>>

\* TaskManager renders and passes a new onSessionComplete: the effect runs again
ParentRender ==
    /\ ~EffectDue
    /\ LET r == Registered(intervals, refActive, minutes, seconds, isActive)
       IN intervals' = r.intervals /\ refActive' = r.refActive
    /\ op' = "render"
    /\ UNCHANGED <<minutes, seconds, isActive, isBreak, sessionCount, nCalls, lastArg,
                   ticks, breakLen>>
    /\ UNCHANGED <<taskVars, formVars, authVars>>

\* the timer on its own: the task list and the progression record stay as loaded
InitTimer ==
    /\ start = "fresh"
    /\ Init

NextTimer ==
    \/ \E i \in 1..2 : Tick(i)
    \/ SessionCompleted
    \/ Toggle
    \/ Reset
    \/ ParentRender

SpecTimer == InitTimer /\ [][NextTimer]_vars

\* a registered interval fires every second and React runs the effect of every
\* render: neither a tick nor the session-end step stays enabled for ever
\* without being taken.  The user's toggle and reset carry no such condition.
SpecTimerFair ==
    /\ InitTimer
    /\ [][NextTimer]_vars
    /\ WF_vars(\E i \in 1..2 : Tick(i))
    /\ WF_vars(SessionCompleted)

\* the timer inside TaskManager: the end of a work session runs onFocusComplete
NextFocus ==
    \/ \E i \in 1..2 : Tick(i)
    \/ FocusSessionCompleted
    \/ Toggle

SpecFocus == InitTimer /\ [][NextFocus]_vars

\* ------------------------------------------------------------- claims

\* C1: in every reachable state the stored level is the level of the stored
\* total XP: current_level = floor(total_xp / 100) + 1.
C1_LevelMatchesXP == profile.current_level = (profile.total_xp \div 100) + 1

\* C2: total XP never decreases: no step writes a total_xp lower than the
\* value it replaces.
C2_XpMonotonic == [][profile'.total_xp >= profile.total_xp]_vars

\* C3: a new user who creates one task and completes it has, once the deferred
\* calls have run, tasks_completed = 1, first_task unlocked and total XP equal
\* to the completion XP of the task's priority + 10 + 5.
C3_FirstTaskScenario ==
    (start = "fresh" /\ ops = 2 /\ nCreated = 1 /\ nCompleted = 1 /\ jobs = <<>>)
    => /\ profile.tasks_completed = 1
       /\ Includes(profile.achievements, "first_task")
       /\ profile.total_xp = XpAmount(tasks[1].priority) + 10 + 5

\* C4: each achievement unlocks at most once: at most one unlock notification,
\* at most one occurrence in the achievement set, its bonus written at most once.
C4_UnlockAtMostOnce ==
    \A a \in AchievementIds :
        /\ toasts[a] <= 1
        /\ Occurrences(profile.achievements, a) <= 1
        /\ grants[a] <= 1

\* C5: an achievement that is in the achievement set is in it after every step.
C5_UnlockOneWay ==
    [][\A a \in AchievementIds :
          Includes(profile.achievements, a) => Includes(profile'.achievements, a)]_vars

\* C6: awards accumulate: every call of addXP raises the stored total XP by
\* exactly the amount it is called with, so a then b yields x + a + b.
C6_AddXPCumulative ==
    [][xpAwarded' # xpAwarded =>
          profile'.total_xp - profile.total_xp = xpAwarded' - xpAwarded]_vars

\* C7: when every completing toggle turned a task of the list from incomplete
\* to complete and the profile update of each has returned, tasks_completed and
\* current_streak are each higher than at the start by exactly the number of
\* these transitions.
C7_CompletionCountedOnce ==
    (/\ nCompleting = nCompleted
     /\ \A j \in DOMAIN jobs : jobs[j].pc \notin {"update", "updateProfile"})
    => /\ profile.tasks_completed = StartProfile(start).tasks_completed + nCompleted
       /\ profile.current_streak = StartProfile(start).current_streak + nCompleted

\* C8: when a completion brings the tasks completed today to 10 with task_master
\* locked, the evaluation deferred by that completion (run on the same day)
\* leaves task_master unlocked.
C8_TaskMasterOnTenth ==
    [][\A j \in DOMAIN jobs :
          (/\ jobs[j].pc = "deferred" /\ j \notin DOMAIN jobs'
           /\ "task_master" \in jobs[j].due /\ jobs[j].at = today)
          => Includes(profile'.achievements, "task_master")]_vars

\* C9: when a completion raises current_streak to 7 or more with
\* consistency_king locked, the evaluation deferred by that completion leaves
\* consistency_king unlocked.
C9_ConsistencyKingOnSeventh ==
    [][\A j \in DOMAIN jobs :
          (/\ jobs[j].pc = "deferred" /\ j \notin DOMAIN jobs'
           /\ "consistency_king" \in jobs[j].due)
          => Includes(profile'.achievements, "consistency_king")]_vars

\* C10: longest_streak >= current_streak in every reachable state.
C10_LongestAtLeastCurrent == profile.longest_streak >= profile.current_streak

\* two completions have been recorded, the second from a stale or a fresh profile
C10_Witness == nCompleted >= 2 /\ profile.current_streak >= 1

\* C11: longest_streak never decreases: no step, in any order in which
\* overlapping completions finish, stores a longest_streak lower than the value
\* it replaces.
C11_LongestNeverDecreases == [][profile'.longest_streak >= profile.longest_streak]_vars

\* seconds of remaining time shown
Remaining == minutes * 60 + seconds

\* C12: a work session started at 25:00 reaches 00:00 after exactly 1500 ticks;
\* onSessionComplete is called once per work session, with 25, at the 1500th
\* tick and at no other step (no tick, toggle, reset or re-run of the effect
\* calls it).
C12_WorkSessionReportsOnce ==
    [][/\ ~isBreak' => minutes' * 60 + seconds' + ticks' = 1500
       /\ nCalls' # nCalls =>
             /\ nCalls' = nCalls + 1
             /\ lastArg' = 25
             /\ ~isBreak /\ minutes = 0 /\ seconds = 0 /\ ticks = 1500
       /\ nCalls' = sessionCount']_vars

\* the first work session has run to 00:00 and has been reported
C12_Witness == nCalls = 1 /\ lastArg = 25 /\ op = "complete" /\ isBreak /\ sessionCount = 1

\* C13: completing the n-th work session sets the remaining time to 30:00 if n
\* is a multiple of 4 and to 5:00 otherwise, switches to break mode, stops the
\* timer and raises the session counter to n.
C13_BreakAfterWork ==
    [][(op' = "complete" /\ ~isBreak) =>
          /\ sessionCount' = sessionCount + 1
          /\ minutes' = (IF sessionCount' % 4 = 0 THEN 30 ELSE 5)
          /\ seconds' = 0
          /\ isBreak'
          /\ ~isActive']_vars

\* the fourth work session has been completed
C13_Witness == op = "complete" /\ isBreak /\ sessionCount = 4 /\ ~isActive

\* C14: when the remaining time reaches zero in break mode the timer switches
\* to work mode at 25:00, does not call onSessionComplete and leaves the session
\* counter unchanged.
C14_WorkAfterBreak ==
    [][(op' = "complete" /\ isBreak) =>
          /\ ~isBreak'
          /\ minutes' = 25
          /\ seconds' = 0
          /\ nCalls' = nCalls
          /\ lastArg' = lastArg
          /\ sessionCount' = sessionCount]_vars

\* a break has run to 00:00
C14_Witness == op = "complete" /\ ~isBreak /\ sessionCount >= 1 /\ nCalls = sessionCount

\* C15: reset() stops the timer and sets the remaining time to 25:00 in work
\* mode and to the length the break in progress was started with in break mode;
\* mode and session counter stay.
C15_ResetRestoresNominal ==
    [][op' = "reset" =>
          /\ ~isActive'
          /\ seconds' = 0
          /\ minutes' = (IF isBreak THEN breakLen ELSE 25)
          /\ isBreak' = isBreak
          /\ sessionCount' = sessionCount]_vars

\* reset() has been called in a long break
C15_Witness == op = "reset" /\ isBreak /\ breakLen = 30 /\ minutes = 30

\* C16: toggle() changes only the running flag; a tick happens only while the
\* timer is running and takes exactly one second off the remaining time; at most
\* one tick registration is active at any moment.
C16_PausePreservesCountdown ==
    [][/\ Len(intervals') <= 1
       /\ op' = "toggle" =>
             /\ isActive' = ~isActive
             /\ minutes' = minutes /\ seconds' = seconds
             /\ isBreak' = isBreak /\ sessionCount' = sessionCount
       /\ op' = "tick" =>
             /\ isActive
             /\ Remaining' = Remaining - 1
       /\ ~isActive' => intervals' = <<>>]_vars

\* the timer has been resumed in the middle of a countdown
C16_Witness == op = "toggle" /\ isActive /\ ticks > 0 /\ Len(intervals) = 1

\* the invocation j returns in this step
Returns(j) == j \in DOMAIN jobs /\ j \notin DOMAIN jobs'

\* this step shows exactly one failure notification and no other
OneFailureToast == toasts' = [toasts EXCEPT !["error"] = @ + 1]

\* this step starts no invocation and leaves the rows of the storage as they are
NoRetry == DOMAIN jobs' \subseteq DOMAIN jobs /\ db' = db /\ ops' = ops

\* C17: when the insert of createTask fails, the task list is unchanged, exactly
\* one failure notification is shown, addXP is not called and total XP is
\* unchanged, and nothing is retried.
C17_CreateFailure ==
    [][\A j \in 1..MaxOps :
          (Returns(j) /\ jobs[j].kind = "create"
           /\ nFailures'["create"] = nFailures["create"] + 1)
          => /\ tasks' = tasks
             /\ OneFailureToast
             /\ xpAwarded' = xpAwarded
             /\ profile' = profile
             /\ NoRetry]_vars

\* the one operation of a new user was a createTask whose insert failed
C17_Witness ==
    /\ start = "fresh" /\ ops = 1 /\ jobs = <<>>
    /\ nFailures["create"] = 1 /\ toasts["error"] = 1 /\ tasks = <<>>

\* C18: when the update of updateTask or of toggleTaskComplete, or the delete of
\* deleteTask, fails, the task list and the progression record are unchanged,
\* exactly one failure notification is shown, no addXP and no checkAchievements
\* is scheduled, and nothing is retried.
C18_UpdateFailure ==
    [][\A j \in 1..MaxOps :
          (Returns(j) /\ jobs[j].kind \in {"edit", "toggle", "delete"}
           /\ nFailures'[jobs[j].kind] = nFailures[jobs[j].kind] + 1)
          => /\ tasks' = tasks
             /\ profile' = profile
             /\ OneFailureToast
             /\ timers' = timers
             /\ xpAwarded' = xpAwarded
             /\ NoRetry]_vars

\* a completion toggle and a delete have both failed
C18_Witness ==
    /\ ops = 2 /\ jobs = <<>>
    /\ nFailures["toggle"] = 1 /\ nFailures["delete"] = 1 /\ toasts["error"] = 2

\* C19: a successful deleteTask of an incomplete task of the list removes that
\* task and no other (the list is one shorter, every other task is still in it,
\* unchanged and in the same order) and leaves the progression record unchanged.
C19_DeleteIncomplete ==
    [][\A j \in 1..MaxOps :
          (/\ Returns(j) /\ jobs[j].kind = "delete"
           /\ nFailures'["delete"] = nFailures["delete"]
           /\ HasTask(tasks, jobs[j].id)
           /\ ~FindTask(tasks, jobs[j].id).completed)
          => /\ Len(tasks') = Len(tasks) - 1
             /\ ~HasTask(tasks', jobs[j].id)
             /\ LET k == CHOOSE i \in 1..Len(tasks) : tasks[i].id = jobs[j].id IN
                   \A i \in 1..Len(tasks) :
                      /\ i < k => tasks'[i] = tasks[i]
                      /\ i > k => tasks'[i - 1] = tasks[i]
             /\ profile' = profile]_vars

\* the open task of the loaded list has been deleted, nothing else was done
C19_Witness ==
    /\ start = "streak6" /\ ops = 1 /\ jobs = <<>>
    /\ toasts["deleted"] = 1 /\ nFailures["delete"] = 0
    /\ Len(tasks) = 6 /\ ~HasTask(tasks, 1)

\* C20: every task of the list is completed if and only if its completed_at is
\* set, in every reachable state.
C20_CompletedIffCompletedAt ==
    \A i \in 1..Len(tasks) : tasks[i].completed <=> tasks[i].completed_at # Null

\* a task has been completed and then edited through the form
C20_Witness ==
    /\ nCompleting = 1 /\ ops = 2 /\ jobs = <<>>
    /\ \E i \in 1..Len(tasks) :
          tasks[i].id = 1 /\ tasks[i].completed /\ tasks[i].priority = "high"

\* C21: an un-completion that storage accepts clears completed_at of the task
\* and sets its flag to false; whether it is accepted or not, the step leaves
\* the profile (streaks, tasks_completed, total XP, achievements) as it was,
\* schedules no timer (no addXP, no checkAchievements) and awards nothing
C21_UncompleteTouchesNothing ==
    [][\A j \in DOMAIN jobs :
          (Returns(j) /\ jobs[j].kind = "toggle" /\ ~jobs[j].completing) =>
              /\ jobs[j].at = Null
              /\ profile' = profile
              /\ timers' = timers
              /\ xpAwarded' = xpAwarded
              /\ grants' = grants
              /\ nFailures' = nFailures =>
                    \A i \in 1..Len(tasks) :
                        tasks[i].id = jobs[j].id =>
                            /\ ~tasks'[i].completed
                            /\ tasks'[i].completed_at = Null]_vars

\* the open task was completed and then un-completed
C21_Witness ==
    /\ start = "streak6"
    /\ ops = 2
    /\ nCompleting = 1
    /\ nCreated = 0
    /\ \A k \in OpKinds : nFailures[k] = 0
    /\ HasTask(tasks, 1)
    /\ ~FindTask(tasks, 1).completed
    /\ FindTask(tasks, 1).completed_at = Null

\* UserStats: (userData.current_level * 100) - userData.total_xp
XpToNextLevel(p) == (p.current_level * XpPerLevel) - p.total_xp

\* UserStats: userData.total_xp - ((userData.current_level - 1) * 100)
CurrentLevelXP(p) == p.total_xp - ((p.current_level - 1) * XpPerLevel)

\* C26: the values the statistics panel shows are in range in every state: the
\* XP gained inside the current level is within 0..99 and the XP missing to
\* the next level is within 1..100
C26_StatsInRange ==
    /\ CurrentLevelXP(profile) \in 0..(XpPerLevel - 1)
    /\ XpToNextLevel(profile) \in 1..XpPerLevel

\* the three completion counters of the progression record agree
CountersAgree ==
    /\ profile.current_streak = profile.longest_streak
    /\ profile.longest_streak = profile.tasks_completed

\* C25: from a record whose counters are zero, current_streak, longest_streak
\* and tasks_completed are equal in every state, and once every completion in
\* flight has recorded itself the streak equals the number of completions
\* recorded since the start (it is never reset or decremented).
C25_StreakCountsCompletions ==
    /\ CountersAgree
    /\ (\A j \in DOMAIN jobs : jobs[j].pc \notin {"update", "updateProfile"})
          => profile.current_streak = nCompleting

\* C27: the mode changes in the session-end step and in no other (not in a
\* tick, toggle, reset or render), and that step is taken at 00:00 after the
\* whole countdown of the mode; every session-end step changes the mode, so
\* work and break alternate; a work session is reported only on leaving work
\* mode, so one break ends between two reports; in break mode the session
\* counter is at least 1.
C27_ModesAlternate ==
    [][/\ isBreak' # isBreak =>
             /\ op' = "complete"
             /\ isActive /\ minutes = 0 /\ seconds = 0
             /\ ticks = (IF isBreak THEN breakLen ELSE WorkMinutes) * 60
       /\ op' = "complete" => isBreak' # isBreak
       /\ op' \in {"tick", "toggle", "reset", "render"} => isBreak' = isBreak
       /\ nCalls' # nCalls => ~isBreak /\ isBreak'
       /\ isBreak /\ ~isBreak' => nCalls' = nCalls /\ sessionCount' = sessionCount
       /\ isBreak' => sessionCount' >= 1]_vars

\* the second work session has just ended, after a break in between
C27_Witness == op = "complete" /\ isBreak /\ sessionCount = 2 /\ nCalls = 2

WithinSessions == isBreak \/ sessionCount < MaxSessions

\* C28: a running timer with time remaining has exactly one interval armed, and
\* it is the one of the time shown (no stall); a running timer stops: unless
\* the user pauses or resets it, by the session-end step, which is the only
\* step possible at 00:00 (the timer does not stay running there).
C28_RunningTimerStops ==
    /\ [](isActive /\ Remaining > 0 =>
             intervals = <<[minutes |-> minutes, seconds |-> seconds]>>)
    /\ [][isActive /\ Remaining = 0 => op' = "complete" /\ ~isActive']_vars
    /\ (isActive /\ WithinSessions) ~>
             (~isActive /\ op \in {"complete", "toggle", "reset"})

\* a break counted down to the end without a pause and the timer stopped
C28_Witness ==
    /\ op = "complete"
    /\ ~isActive
    /\ ~isBreak
    /\ sessionCount = 1
    /\ Remaining = WorkMinutes * 60

\* C23: once every storage call in flight has returned, the local task list
\* holds exactly the persisted tasks, with the same fields.
C23_ListMirrorsStorage ==
    jobs = <<>> =>
        /\ {tasks[i] : i \in 1..Len(tasks)} = db
        /\ Len(tasks) = Cardinality(db)

\* a title without a character other than white space
Blank(t) == \A i \in 1..Len(t) : t[i] \in WhiteSpace

\* C24: a submit of the form with a blank title calls neither createTask nor
\* updateTask (no invocation starts, no operation is counted) and leaves the
\* task list, storage and the progression record as they were; every submit
\* that does call one of them passes a title with a character other than
\* white space, so the last title passed on is never blank.
C24_BlankTitleNotSubmitted ==
    [][formSubmits' # formSubmits =>
          IF Blank(formTitle)
          THEN /\ jobs' = jobs /\ ops' = ops
               /\ tasks' = tasks /\ db' = db /\ profile' = profile
               /\ lastSubmitted' = lastSubmitted
          ELSE /\ ops' = ops + 1
               /\ lastSubmitted' = formTitle
               /\ ~Blank(lastSubmitted')]_vars

\* a title of white space was submitted and refused, one with a letter passed on
C24_Witness ==
    /\ formSubmits = 2
    /\ ops = 1
    /\ formTitle = <<" ", "\t">>
    /\ lastSubmitted = <<" ", "a">>

\* the form data satisfy the sign-up schema
SatisfiesSignUp(d) ==
    /\ IsEmail(d.email)
    /\ Len(d.password) >= 8
    /\ Len(d.username) >= 3 /\ Len(d.username) <= 20

\* the form data satisfy the sign-in schema
SatisfiesSignIn(d) == IsEmail(d.email) /\ Len(d.password) >= 1

\* the field f of the form data fails the schema of the mode signingUp
FieldFails(signingUp, d, f) ==
    CASE f = "email" -> ~IsEmail(d.email)
      [] f = "password" -> Len(d.password) < (IF signingUp THEN 8 ELSE 1)
      [] f = "username" -> signingUp /\ (Len(d.username) < 3 \/ Len(d.username) > 20)

\* C29: a submit in sign-up mode calls signUp if and only if the form data
\* satisfy the sign-up schema, a submit in sign-in mode calls signIn if and only
\* if they satisfy the sign-in schema, each with the data of the form and with
\* isSubmitting set; a submit that fails validation calls neither, leaves
\* isSubmitting false and records an error for exactly the failing fields; no
\* other step calls signUp or signIn.
C29_SubmitCallsOnlyWhenValid ==
    [][/\ authCalls' # authCalls => authSubmits' # authSubmits
       /\ authSubmits' # authSubmits =>
             IF (IF isSignUp THEN SatisfiesSignUp(authData) ELSE SatisfiesSignIn(authData))
             THEN /\ authCalls' = authCalls + 1
                  /\ lastCall'.fn = (IF isSignUp THEN "signUp" ELSE "signIn")
                  /\ lastCall'.email = authData.email
                  /\ lastCall'.password = authData.password
                  /\ isSignUp => lastCall'.username = authData.username
                  /\ isSubmitting'
             ELSE /\ authCalls' = authCalls
                  /\ lastCall' = lastCall
                  /\ ~isSubmitting'
                  /\ \A f \in AuthFields :
                        errors'[f] # "" <=> FieldFails(isSignUp, authData, f)]_vars

\* one submit was refused and the next one, in sign-up mode, called signUp
C29_Witness ==
    /\ authSubmits = 2
    /\ authCalls = 1
    /\ lastCall.fn = "signUp"
    /\ isSubmitting

\* C30: sign-up takes a user name of 3 characters or more and of less than 20
\* only: a submit in sign-up mode with a user name of 20 characters or more does
\* not call signUp and records 'Username must be less than 20 characters'.
C30_UsernameBelowTwenty ==
    [][authSubmits' # authSubmits /\ isSignUp =>
          /\ authCalls' # authCalls =>
                Len(authData.username) >= 3 /\ Len(authData.username) < 20
          /\ Len(authData.username) >= 20 =>
                /\ authCalls' = authCalls
                /\ errors'.username = "Username must be less than 20 characters"]_vars

====
